---- MODULE Spec2Model ----
(***************************************************************************)
(* The backup ("last ditch") allocator of kernel/mm/backup.rs: a boundary  *)
(* tag free list over one page-granular arena.                             *)
(*                                                                         *)
(* Addresses are byte addresses.  Memory is kept per tag-width word: a     *)
(* word holds a tag (size | allocated bit) or payload content.  usize is   *)
(* scaled down to UMod values and a page to WordsPerPage words, so that    *)
(* the arena can be enumerated; all arithmetic is the code's.              *)
(***************************************************************************)
EXTENDS Integers, Sequences, FiniteSets, TLC

(* ------------------------------ bounds -------------------------------- *)
\* words (of TagWidth bytes) in one page
WordsPerPage == 4
\* pages of an arena built by new(size, threshold)
NumPages == 4
\* threshold given to new(size, threshold)
Threshold == 1
\* allocations a caller holds at once
MaxLive == 3
\* public calls made on one allocator
MaxCalls == 6
\* page counts from 1 up that get_page_aligned_part is asked on every block
MaxAskPages == 4
\* number of values of a usize (2^w)
UMod == 65536
\* page number of the buffer page::alloc_n returns
BufPage == 1

(* -------------------------- program constants ------------------------- *)
TagWidth == 4
FREE_FILL == 247
ALOC_FILL == 127
DEFAULT_BACKUP_PAGES == 128
DEFAULT_THRESHOLD == 16
NULL == 0

(* ------------------------- page module (extern) ----------------------- *)
PAGE_SIZE == WordsPerPage * TagWidth
page_offset(p) == p % PAGE_SIZE
page_aligned(p) == page_offset(p) = 0
page_align_down(p) == p - (p % PAGE_SIZE)
page_align_up(p) == page_align_down((p + PAGE_SIZE - 1) % UMod)
page_addr_to_num(p) == p \div PAGE_SIZE
page_num_to_addr(n) == n * PAGE_SIZE
page_alloc_n(n) == BufPage * PAGE_SIZE
\* x & page::MASK as get_page_aligned_part uses it: the distance to a page
\* boundary, 0 when there is none to go
page_mask(x) == x % PAGE_SIZE

(* ------------------------------ arithmetic ---------------------------- *)
Max(a, b) == IF a >= b THEN a ELSE b
\* usize subtraction and addition as a build without overflow checks does them
wrapping_sub(a, b) == (a - b + UMod) % UMod
wrapping_add(a, b) == (a + b) % UMod
\* one word filled with a fill byte
FillWord(b) == b * 256 + b

\* Number of pages it would take to hold that many bytes.
pg_size(u) == page_addr_to_num(page_align_up(u))

(* --------------------------------- Tag -------------------------------- *)
Tag_is_allocated(w) == w % 2 # 0
Tag_is_free(w) == ~Tag_is_allocated(w)
Tag_size(w) == w - (w % 2)
Tag_set_allocated(w) == Tag_size(w) + 1
Tag_set_free(w) == Tag_size(w)
Tag_set_size(w, size) == IF Tag_is_allocated(w) THEN Tag_size(size) + 1 ELSE size
Tag_get_start(t) == t + TagWidth

VARIABLES
    buf,              \* BackupAllocator.buf (NULL: the placeholder)
    pages,            \* BackupAllocator.pages
    largest_space,    \* BackupAllocator.largest_space
    threshold_pages,  \* BackupAllocator.threshold_pages
    mem,              \* the arena: word address -> word
    live,             \* the caller's outstanding allocations: [ptr, size]
    overflow_checks,  \* the build: TRUE panics on usize overflow, FALSE wraps
    panicked,         \* "" while running, else what stopped the kernel
    last,             \* the last call made: [op, size, ptr]
    calls             \* the number of calls made

vars == <<buf, pages, largest_space, threshold_pages, mem, live,
          overflow_checks, panicked, last, calls>>

byte_len == page_num_to_addr(pages)

\* the word addresses of an arena of n pages at b
ArenaWords(b, n) == { b + TagWidth * i : i \in 0 .. (n * WordsPerPage - 1) }

\* read_tag: Some(t) iff t lies in [buf, buf + byte_len)
read_tag(t) == buf <= t /\ t < buf + byte_len

Tag_next(m, t) == (Tag_get_start(t) + Tag_size(m[t])) % UMod

\* setup(): zero the buffer and write the one arena-wide free tag
setup(b, n) ==
    [a \in ArenaWords(b, n) |->
        IF a = b THEN page_num_to_addr(n) - TagWidth ELSE 0]

\* write_bytes(p, fill, n): the words that n bytes from p reach
RECURSIVE write_bytes(_, _, _, _)
write_bytes(m, p, fill, n) ==
    IF n <= 0 THEN m
    ELSE CHOOSE r \in { write_bytes(m1, p + TagWidth, fill, n - TagWidth)
                        : m1 \in {[m EXCEPT ![p] = FillWord(fill)]} } : TRUE

\* what a step of the code hands back: the memory, a pointer, and the panic
\* that stopped it ("" for none)
Ret(m, res) == [mem |-> m, res |-> res, panic |-> ""]
Panic(m, why) == [mem |-> m, res |-> NULL, panic |-> why]

(* ----------------------- Tag::get_page_aligned_part -------------------- *)
\* minimum bytes between start of tagged region and start of page region
pre_bytes(t) == page_mask(PAGE_SIZE - page_offset(Tag_get_start(t)))

\* get_page_aligned_part that leaves pre_bytes out of the test
get_page_aligned_part_no_pre_bytes(m, t, requested_pages) ==
    LET nbytes == page_num_to_addr(requested_pages)
        end    == page_align_down(Tag_next(m, t))
        start  == page_num_to_addr(page_addr_to_num(end) - requested_pages) - TagWidth
    IN  IF ~Tag_is_free(m[t]) THEN [panic |-> "assert: is_free", part |-> <<>>]
        ELSE IF Tag_size(m[t]) < nbytes THEN [panic |-> "", part |-> <<>>]
        ELSE IF ~(start >= t) THEN [panic |-> "bassert: start >= tag", part |-> <<>>]
        ELSE IF ~page_aligned(start + TagWidth) THEN [panic |-> "assert: aligned", part |-> <<>>]
        ELSE [panic |-> "", part |-> <<start, end>>]

\* get_page_aligned_part with the end of the carve rounded up to a page
get_page_aligned_part_align_up(m, t, requested_pages) ==
    LET nbytes == page_num_to_addr(requested_pages)
        end    == page_align_up(Tag_next(m, t))
        start  == page_num_to_addr(page_addr_to_num(end) - requested_pages) - TagWidth
    IN  IF Tag_size(m[t]) < nbytes + pre_bytes(t) THEN [panic |-> "", part |-> <<>>]
        ELSE [panic |-> "", part |-> <<start, end>>]

\* <<start, end>> of the carve, as far back in the block as possible, or <<>>
get_page_aligned_part(m, t, requested_pages) ==
    LET nbytes == page_num_to_addr(requested_pages)
        end    == page_align_down(Tag_next(m, t))
        start  == page_num_to_addr(page_addr_to_num(end) - requested_pages) - TagWidth
    IN  IF ~Tag_is_free(m[t]) THEN [panic |-> "assert: is_free", part |-> <<>>]
        ELSE IF Tag_size(m[t]) < nbytes + pre_bytes(t) THEN [panic |-> "", part |-> <<>>]
        ELSE IF ~(start >= t) THEN [panic |-> "bassert: start >= tag", part |-> <<>>]
        ELSE IF ~page_aligned(start + TagWidth) THEN [panic |-> "assert: aligned", part |-> <<>>]
        ELSE [panic |-> "", part |-> <<start, end>>]

(* ------------------------------ allocate_small ------------------------- *)
\* A value that is used more than once is bound as the one element of a set
\* (CHOOSE r \in {e(x) : x \in {v}} : TRUE is e(v)), so that it is computed once.

\* the scan of the free list: the first exact fit, else the candidate kept
RECURSIVE small_scan(_, _, _, _)
small_scan(m, c, req, best) ==
    IF ~read_tag(c) THEN [exact |-> FALSE, tag |-> best]
    ELSE IF Tag_is_free(m[c]) /\ Tag_size(m[c]) >= req
         THEN IF Tag_size(m[c]) = req \/ Tag_size(m[c]) = req + TagWidth
              THEN [exact |-> TRUE, tag |-> <<c>>]
              ELSE IF (IF best = <<>> THEN UMod - 1 ELSE Tag_size(m[best[1]])) > req
                   THEN CHOOSE r \in {small_scan(m, n, req, <<c>>) : n \in {Tag_next(m, c)}} : TRUE
                   ELSE CHOOSE r \in {small_scan(m, n, req, best) : n \in {Tag_next(m, c)}} : TRUE
         ELSE CHOOSE r \in {small_scan(m, n, req, best) : n \in {Tag_next(m, c)}} : TRUE

\* small_split that leaves the new tag's width out of the remainder
small_split_no_tag_width(m, t, req) ==
    LET old_size == Tag_size(m[t])
        new_tag == (Tag_get_start(t) + req) % UMod
    IN  Ret([m EXCEPT ![t] = Tag_set_allocated(Tag_set_size(@, req)),
                      ![new_tag] = wrapping_sub(old_size, req)],
            Tag_get_start(t))

\* small_split without tag.set_allocated()
small_split_not_marked(m, t, req) ==
    LET old_size == Tag_size(m[t])
        remaining_size == wrapping_sub(wrapping_sub(old_size, TagWidth), req)
        new_tag == (Tag_get_start(t) + req) % UMod
    IN  IF ~read_tag(new_tag) THEN Ret([m EXCEPT ![t] = Tag_set_size(@, req)], Tag_get_start(t))
        ELSE Ret([m EXCEPT ![t] = Tag_set_size(@, req), ![new_tag] = remaining_size],
                 Tag_get_start(t))

\* the split of the candidate: the block of req bytes and the remainder's tag
small_split(m, t, req) ==
    LET old_size == Tag_size(m[t])
        remaining_size == wrapping_sub(wrapping_sub(old_size, TagWidth), req)
        new_tag == (Tag_get_start(t) + req) % UMod
    IN  IF overflow_checks /\ old_size < TagWidth + req
        THEN Panic(m, "overflow: remaining_size")
        ELSE IF ~read_tag(new_tag)
        THEN Ret([m EXCEPT ![t] = Tag_set_allocated(Tag_set_size(@, req))], Tag_get_start(t))
        ELSE IF remaining_size % 2 # 0
        THEN Panic([m EXCEPT ![t] = Tag_set_allocated(Tag_set_size(@, req))], "assert: Tag::new")
        ELSE Ret([m EXCEPT ![t] = Tag_set_allocated(Tag_set_size(@, req)),
                           ![new_tag] = remaining_size],
                 Tag_get_start(t))

allocate_small(m, req) ==
    CHOOSE r \in
      { IF s.exact THEN Ret([m EXCEPT ![s.tag[1]] = Tag_set_allocated(@)],
                            Tag_get_start(s.tag[1]))
        ELSE IF s.tag # <<>> THEN small_split(m, s.tag[1], req)
        ELSE Ret(m, NULL) : s \in {small_scan(m, buf, req, <<>>)} } : TRUE

(* ------------------------------ allocate_pages ------------------------- *)
\* the scan: the last free block with a carve, and the carve
RECURSIVE pages_scan(_, _, _, _)
pages_scan(m, c, pgs, best) ==
    IF ~read_tag(c) THEN [panic |-> "", best |-> best]
    ELSE IF Tag_is_free(m[c])
         THEN CHOOSE x \in
                { IF r.panic # "" THEN [panic |-> r.panic, best |-> best]
                  ELSE IF r.part # <<>> THEN pages_scan(m, n, pgs, <<c>> \o r.part)
                  ELSE pages_scan(m, n, pgs, best)
                  : r \in {get_page_aligned_part(m, c, pgs)}, n \in {Tag_next(m, c)} } : TRUE
         ELSE CHOOSE x \in {pages_scan(m, n, pgs, best) : n \in {Tag_next(m, c)}} : TRUE

\* pages_split without start.set_allocated()
pages_split_not_marked(m, t, split_low, split_hi, pgs) ==
    LET new_start_size == wrapping_sub(split_low, Tag_get_start(t))
        nxt == Tag_next(m, t)
        new_end_size == wrapping_sub(nxt, split_hi + TagWidth)
        m1 == IF split_hi # nxt /\ read_tag(split_hi)
              THEN [m EXCEPT ![split_hi] = Tag_set_free(Tag_set_size(@, new_end_size))]
              ELSE m
    IN  Ret([m1 EXCEPT ![t] = Tag_set_free(Tag_set_size(@, new_start_size)),
                       ![split_low] = Tag_set_size(@, page_num_to_addr(pgs))],
            Tag_get_start(split_low))

\* the (up to) three-way split of block t around the carve [split_low, split_hi)
pages_split(m, t, split_low, split_hi, pgs) ==
    LET new_start_size == wrapping_sub(split_low, Tag_get_start(t))
        nxt == Tag_next(m, t)
        new_end_size == wrapping_sub(nxt, split_hi + TagWidth)
    IN  IF overflow_checks /\ split_low < Tag_get_start(t)
        THEN Panic(m, "overflow: new_start_size")
        ELSE IF new_start_size % 4 # 0 THEN Panic(m, "assert: start size")
        ELSE IF overflow_checks /\ split_hi # nxt /\ nxt < split_hi + TagWidth
        THEN Panic(m, "overflow: new_end_size")
        ELSE CHOOSE r \in
          { IF ~read_tag(split_low) THEN Panic(m2, "expect: split_low")
            ELSE Ret([m2 EXCEPT ![split_low] =
                         Tag_set_allocated(Tag_set_size(@, page_num_to_addr(pgs)))],
                     Tag_get_start(split_low))
            : m2 \in { [m1 EXCEPT ![t] = Tag_set_free(Tag_set_size(@, new_start_size))]
                       : m1 \in { IF split_hi # nxt /\ read_tag(split_hi)
                                  THEN [m EXCEPT ![split_hi] =
                                           Tag_set_free(Tag_set_size(@, new_end_size))]
                                  ELSE m } } } : TRUE

allocate_pages(m, pgs) ==
    CHOOSE r \in
      { IF s.panic # "" THEN Panic(m, s.panic)
        ELSE IF s.best = <<>> THEN Ret(m, NULL)
        ELSE IF s.best[1] = s.best[2] /\ Tag_next(m, s.best[1]) = s.best[3]
        THEN IF pg_size(Tag_size(m[s.best[1]])) # pgs THEN Panic(m, "bassert: pg_size")
             ELSE IF ~page_aligned(Tag_size(m[s.best[1]])) THEN Panic(m, "assert: aligned")
             ELSE Ret([m EXCEPT ![s.best[1]] = Tag_set_allocated(@)], Tag_get_start(s.best[1]))
        ELSE pages_split(m, s.best[1], s.best[2], s.best[3], pgs)
        : s \in {pages_scan(m, buf, pgs, <<>>)} } : TRUE

(* ------------------------------- real_allocate ------------------------- *)
real_allocate(m, size) ==
    IF size % TagWidth # 0 THEN Panic(m, "assert: size aligned")
    ELSE IF overflow_checks /\ largest_space + 1 >= UMod
    THEN Panic(m, "overflow: largest_space + 1")
    ELSE IF pg_size(size) > wrapping_add(largest_space, 1) THEN Ret(m, NULL)
    ELSE IF size >= PAGE_SIZE THEN allocate_pages(m, pg_size(size))
    ELSE allocate_small(m, size)

(* ------------------------------ do_recalculate ------------------------- *)
\* what the recalculation hands back: the memory, the largest page count
\* seen, and the panic that stopped it
Recalc(m, largest, why) == [mem |-> m, largest |-> largest, panic |-> why]

\* the walk from prev: coalesce prev and its successor c when both are free,
\* track the largest free span, step to the successor
RECURSIVE recalculate_loop(_, _, _)
recalculate_step(m, prev, c, largest) ==
    IF ~read_tag(c) THEN Recalc(m, largest, "")
    ELSE IF Tag_size(m[c]) % TagWidth # 0 THEN Recalc(m, largest, "assert: cur.size")
    ELSE IF Tag_is_free(m[prev]) /\ Tag_is_free(m[c])
    THEN CHOOSE r \in
           { IF overflow_checks /\ pg_size(Tag_size(m1[prev])) < 1
             THEN Recalc(m1, largest, "overflow: pg_size - 1")
             ELSE CHOOSE q \in
                    { recalculate_loop(m1, c, l)
                      : l \in {Max(largest, wrapping_sub(pg_size(Tag_size(m1[prev])), 1))} } : TRUE
             : m1 \in { [m EXCEPT ![prev] =
                           Tag_set_size(@, wrapping_add(wrapping_add(Tag_size(m[prev]),
                                                                     Tag_size(m[c])),
                                                        TagWidth))] } } : TRUE
    ELSE IF Tag_is_free(m[c])
    THEN IF overflow_checks /\ pg_size(Tag_size(m[c])) < 1
         THEN Recalc(m, largest, "overflow: pg_size - 1")
         ELSE CHOOSE q \in
                { recalculate_loop(m, c, l)
                  : l \in {Max(largest, wrapping_sub(pg_size(Tag_size(m[c])), 1))} } : TRUE
    ELSE recalculate_loop(m, c, largest)

recalculate_loop(m, prev, largest) ==
    CHOOSE r \in {recalculate_step(m, prev, c, largest) : c \in {Tag_next(m, prev)}} : TRUE

do_recalculate(m) ==
    IF ~read_tag(buf) THEN Recalc(m, 0, "expect: shouldn't be null")
    ELSE IF Tag_is_free(m[buf])
    THEN IF overflow_checks /\ pg_size(Tag_size(m[buf])) < 1
         THEN Recalc(m, 0, "overflow: pg_size - 1")
         ELSE CHOOSE r \in
                { recalculate_loop(m, buf, l)
                  : l \in {wrapping_sub(pg_size(Tag_size(m[buf])), 1)} } : TRUE
    ELSE recalculate_loop(m, buf, 0)

(* ------------------------------- the queries --------------------------- *)
is_used_in(m) ==
    ~(Tag_is_free(m[buf]) /\ byte_len - TagWidth = Tag_size(m[buf]))

is_used == is_used_in(mem)

is_memory_low_in(m, largest) ==
    is_used_in(m) /\ wrapping_sub(pages, largest) > threshold_pages

is_memory_low == is_memory_low_in(mem, largest_space)

\* contains with the end of the arena taken in
contains_end_inclusive(ptr) == buf <= ptr /\ ptr <= buf + byte_len

\* Returns true if this ptr needs to be deallocated from the backup
contains(ptr) == buf <= ptr /\ ptr < buf + byte_len

(* --------------------------------- allocate ---------------------------- *)
\* Force everything to be aligned by size_of::<Tag>.
tag_align(size) == ((size + (TagWidth - 1)) \div TagWidth) * TagWidth

\* what a public call hands back: memory, largest_space, pointer, panic
Call(m, largest, res, why) == [mem |-> m, largest |-> largest, res |-> res, panic |-> why]

\* the call after real_allocate handed back ra: recalculate, fill, log
allocate_finish(ra, size) ==
    IF ra.panic # "" THEN Call(ra.mem, largest_space, NULL, ra.panic)
    ELSE CHOOSE r \in
      { IF rc.panic # "" THEN Call(rc.mem, largest_space, NULL, rc.panic)
        ELSE IF ra.res = NULL THEN Call(rc.mem, rc.largest, NULL, "")
        ELSE CHOOSE q \in
               { IF overflow_checks /\ is_used_in(m3) /\ pages < rc.largest
                 THEN Call(m3, rc.largest, NULL, "overflow: pages - largest_space")
                 ELSE Call(m3, rc.largest, ra.res, "")
                 : m3 \in {write_bytes(rc.mem, ra.res, ALOC_FILL, size)} } : TRUE
        : rc \in {do_recalculate(ra.mem)} } : TRUE

allocate(size) ==
    CHOOSE r \in {allocate_finish(ra, size) : ra \in {real_allocate(mem, tag_align(size))}} : TRUE

(* -------------------------------- deallocate --------------------------- *)
\* deallocate_small that accepts the requested size only
deallocate_small_exact(m, ptr, size) ==
    IF ~read_tag(ptr - TagWidth) THEN Panic(m, "expect: should exist")
    ELSE IF Tag_size(m[ptr - TagWidth]) # size THEN Panic(m, "assert: t.size() == size")
    ELSE Ret([m EXCEPT ![ptr - TagWidth] = Tag_set_free(@)], ptr)

deallocate_small(m, ptr, size) ==
    IF ~read_tag(ptr - TagWidth) THEN Panic(m, "expect: should exist")
    ELSE IF ~(Tag_size(m[ptr - TagWidth]) = size
              \/ Tag_size(m[ptr - TagWidth]) = size + TagWidth)
    THEN Panic(m, "assert: t.size() == size")
    ELSE Ret([m EXCEPT ![ptr - TagWidth] = Tag_set_free(@)], ptr)

deallocate_pages(m, ptr, pgs) ==
    IF ~page_aligned(ptr) THEN Panic(m, "assert: aligned")
    ELSE deallocate_small(m, ptr, page_num_to_addr(pgs))

real_deallocate(m, ptr, size) ==
    IF size % TagWidth # 0 THEN Panic(m, "assert: size aligned")
    ELSE IF size >= PAGE_SIZE THEN deallocate_pages(m, ptr, pg_size(size))
    ELSE deallocate_small(m, ptr, size)

\* the call after real_deallocate handed back rd: recalculate
deallocate_finish(rd, ptr) ==
    IF rd.panic # "" THEN Call(rd.mem, largest_space, NULL, rd.panic)
    ELSE CHOOSE r \in
      { IF rc.panic # "" THEN Call(rc.mem, largest_space, NULL, rc.panic)
        ELSE Call(rc.mem, rc.largest, ptr, "")
        : rc \in {do_recalculate(rd.mem)} } : TRUE

deallocate(ptr, size) ==
    CHOOSE r \in
      { deallocate_finish(rd, ptr)
        : rd \in { real_deallocate(m0, ptr, tag_align(size))
                   : m0 \in {write_bytes(mem, ptr, FREE_FILL, size)} } } : TRUE

(* ------------------------------ construction --------------------------- *)
Allocator(b, n, largest, threshold, m) ==
    [buf |-> b, pages |-> n, largest_space |-> largest,
     threshold_pages |-> threshold, mem |-> m]

\* DEFAULT_BACKUP_ALLOCATOR: the placeholder
DEFAULT_BACKUP_ALLOCATOR == Allocator(NULL, 0, 0, 0, [a \in {} |-> 0])

new(size, threshold) ==
    Allocator(page_alloc_n(size), size, size - 1, threshold,
              setup(page_alloc_n(size), size))

\* finish that builds the default allocator whatever the instance holds
finish_unguarded(self) == new(DEFAULT_BACKUP_PAGES, DEFAULT_THRESHOLD)

finish(self) ==
    IF self.buf = NULL THEN new(DEFAULT_BACKUP_PAGES, DEFAULT_THRESHOLD) ELSE self

(* ------------------------------- the machine --------------------------- *)
\* the sizes callers ask for: nothing, a byte, more than a word, a page less
\* a byte, a page and a byte
Sizes == {0, 1, TagWidth + 1, PAGE_SIZE - 1, PAGE_SIZE + 1}

Self == Allocator(buf, pages, largest_space, threshold_pages, mem)

Become(self) ==
    /\ buf' = self.buf
    /\ pages' = self.pages
    /\ largest_space' = self.largest_space
    /\ threshold_pages' = self.threshold_pages
    /\ mem' = self.mem

Init ==
    /\ \E self \in {DEFAULT_BACKUP_ALLOCATOR, new(NumPages, Threshold)} :
          /\ buf = self.buf
          /\ pages = self.pages
          /\ largest_space = self.largest_space
          /\ threshold_pages = self.threshold_pages
          /\ mem = self.mem
    /\ live = {}
    /\ overflow_checks \in BOOLEAN
    /\ panicked = ""
    /\ last = [op |-> "new", size |-> 0, ptr |-> NULL]
    /\ calls = 0

Allocate(size) ==
    /\ panicked = ""
    /\ calls < MaxCalls
    /\ calls' = calls + 1
    /\ Cardinality(live) < MaxLive
    /\ \E r \in {allocate(size)} :
           /\ mem' = r.mem
           /\ largest_space' = r.largest
           /\ panicked' = r.panic
           /\ live' = IF r.res # NULL THEN live \cup {[ptr |-> r.res, size |-> size]}
                      ELSE live
           /\ last' = [op |-> "allocate", size |-> size, ptr |-> r.res]
    /\ UNCHANGED <<buf, pages, threshold_pages, overflow_checks>>

Deallocate(a) ==
    /\ panicked = ""
    /\ calls < MaxCalls
    /\ calls' = calls + 1
    /\ \E r \in {deallocate(a.ptr, a.size)} :
           /\ mem' = r.mem
           /\ largest_space' = r.largest
           /\ panicked' = r.panic
           /\ live' = live \ {a}
           /\ last' = [op |-> "deallocate", size |-> a.size, ptr |-> a.ptr]
    /\ UNCHANGED <<buf, pages, threshold_pages, overflow_checks>>

Finish ==
    /\ panicked = ""
    /\ calls < MaxCalls
    /\ calls' = calls + 1
    /\ Become(finish(Self))
    /\ last' = [op |-> "finish", size |-> 0, ptr |-> NULL]
    /\ UNCHANGED <<live, overflow_checks, panicked>>

Next ==
    \/ \E size \in Sizes : Allocate(size)
    \/ \E a \in live : Deallocate(a)
    \/ Finish

Spec == Init /\ [][Next]_vars

(* ------------------------- reading the arena --------------------------- *)
\* the blocks met by following next() from the first tag
RECURSIVE ChainFrom(_, _)
ChainFrom(m, c) ==
    IF ~read_tag(c) THEN <<>>
    ELSE CHOOSE r \in
           { <<[addr |-> c, size |-> Tag_size(m[c]), allocated |-> Tag_is_allocated(m[c])]>>
             \o ChainFrom(m, n) : n \in {Tag_next(m, c)} } : TRUE

Blocks == IF buf = NULL THEN <<>> ELSE ChainFrom(mem, buf)
BlockSet == UNION { {s[i] : i \in 1 .. Len(s)} : s \in {Blocks} }
AllocatedBlocks == {b \in BlockSet : b.allocated}
FreeBlocks == {b \in BlockSet : ~b.allocated}

\* the block the caller holds at a: its recorded size and its payload words
BlockSize(a) == Tag_size(mem[a.ptr - TagWidth])
Payload(a) == {a.ptr + TagWidth * i : i \in 0 .. (BlockSize(a) \div TagWidth) - 1}
PageGranular(size) == tag_align(size) >= PAGE_SIZE
Returned == panicked = "" /\ buf # NULL

(* ------------------------------- C1 ------------------------------------ *)
\* C1: after every call returns, every live allocation's payload range
\* [p, p + block_size) lies inside the arena, holds the request, and no two
\* live payload ranges overlap.
C1_NoOverlapInsideArena ==
    Returned =>
      \A a \in live :
        /\ buf <= a.ptr - TagWidth
        /\ a.ptr + BlockSize(a) <= buf + byte_len
        /\ tag_align(a.size) <= BlockSize(a)
        /\ \A b \in live \ {a} :
              a.ptr + BlockSize(a) <= b.ptr \/ b.ptr + BlockSize(b) <= a.ptr

\* three allocations are held, small and page-granular, after a deallocate
\* and a further allocate
C1_Witness ==
    /\ Returned
    /\ Cardinality(live) = 3
    /\ calls >= 5
    /\ last.op = "allocate"
    /\ \E a \in live : PageGranular(a.size)
    /\ \E a \in live : ~PageGranular(a.size) /\ a.size > 0
    /\ FreeBlocks # {}

(* ------------------------------- C2 ------------------------------------ *)
\* C2: when every allocation made has been deallocated, after the last
\* deallocate returns the arena is one free block of byte_len - tag width,
\* is_used() is false and largest_space = pages - 1.
C2_AllFreedIsOneFreeBlock ==
    (Returned /\ live = {} /\ last.op = "deallocate") =>
      /\ Blocks = <<[addr |-> buf, size |-> byte_len - TagWidth, allocated |-> FALSE]>>
      /\ ~is_used
      /\ largest_space = pages - 1

(* ------------------------------- C3 ------------------------------------ *)
\* C3: no call writes inside the payload of a block that is live before and
\* after it: the block's tag and every word of its payload are unchanged.
C3_LivePayloadUntouched ==
    [][\A a \in live \cap live' :
          /\ mem'[a.ptr - TagWidth] = mem[a.ptr - TagWidth]
          /\ \A w \in Payload(a) : mem'[w] = mem[w]]_vars

\* a block that still holds what the caller was given, with a free block
\* right before its tag, after a deallocate
C3_Witness ==
    /\ Returned
    /\ last.op = "deallocate"
    /\ \E a \in live :
          /\ a.size > 0
          /\ mem[a.ptr] = FillWord(ALOC_FILL)
          /\ \E b \in FreeBlocks : b.addr + TagWidth + b.size = a.ptr - TagWidth

(* ------------------------------- C4 ------------------------------------ *)
CeilPages(size) == (size + PAGE_SIZE - 1) \div PAGE_SIZE

\* C4: an allocate of a page-granular size that returns non-null returns a
\* page-aligned pointer whose tag is allocated with size ceil(size/PAGE)*PAGE.
C4_PageRequestsAlignedAndRounded ==
    (Returned /\ last.op = "allocate" /\ PageGranular(last.size) /\ last.ptr # NULL) =>
      /\ page_aligned(last.ptr)
      /\ mem[last.ptr - TagWidth] = CeilPages(last.size) * PAGE_SIZE + 1

\* a request of two pages served by a split, after earlier calls
C4_Witness ==
    /\ Returned
    /\ last.op = "allocate"
    /\ last.size = PAGE_SIZE + 1
    /\ last.ptr # NULL
    /\ calls >= 3
    /\ \E b \in FreeBlocks : b.addr + TagWidth + b.size = last.ptr - TagWidth

(* ------------------------------- C5 ------------------------------------ *)
\* C5: an allocate that returns null leaves the sequence of (address, size,
\* allocated) of all blocks as it was.
C5_FailedAllocateChangesNoTag ==
    [][(last'.op = "allocate" /\ calls' = calls + 1 /\ last'.ptr = NULL
        /\ panicked' = "" /\ buf # NULL) => Blocks' = Blocks]_vars

(* ------------------------------- C6 ------------------------------------ *)
\* C6: is_memory_low() is true iff an allocation is outstanding and
\* pages - largest_space > threshold_pages.
C6_MemoryLowIffOutstandingOverThreshold ==
    Returned =>
      (is_memory_low <=> (live # {} /\ pages - largest_space > threshold_pages))

(* ------------------------------- C7 ------------------------------------ *)
\* addresses around the arena that are not in it
Outside ==
    ((buf - PAGE_SIZE) .. (buf - 1))
    \cup ((buf + byte_len) .. (buf + byte_len + PAGE_SIZE))

\* C7: contains(p) is true of every pointer allocate returned, and false of
\* every address below buf or at or above buf + byte_len.
C7_ContainsReturnedPointers ==
    Returned =>
      /\ \A a \in live : contains(a.ptr)
      /\ (last.op = "allocate" /\ last.ptr # NULL) => contains(last.ptr)
      /\ \A p \in Outside : ~contains(p)

\* a zero-size allocation and a block that ends at the arena's end are held
C7_Witness ==
    /\ Returned
    /\ \E a \in live : a.size = 0
    /\ \E b \in live : b.ptr + BlockSize(b) = buf + byte_len

(* ------------------------------- C8 ------------------------------------ *)
DeallocateAsserts ==
    {"expect: should exist", "assert: t.size() == size", "assert: aligned",
     "assert: size aligned"}

\* C8: deallocate(p, size) of a live block finds the tag at p - tag width
\* allocated with the size the assertion accepts, passes the assertions,
\* marks that block free, and leaves every other allocated block allocated.
C8_DeallocateFreesExactlyThatBlock ==
    [][(last'.op = "deallocate" /\ calls' = calls + 1) =>
        LET t == last'.ptr - TagWidth
            req == tag_align(last'.size)
        IN  /\ [ptr |-> last'.ptr, size |-> last'.size] \in live
            /\ Tag_is_allocated(mem[t])
            /\ IF req >= PAGE_SIZE
               THEN Tag_size(mem[t]) = page_num_to_addr(pg_size(req))
               ELSE Tag_size(mem[t]) \in {req, req + TagWidth}
            /\ panicked' \notin DeallocateAsserts
            /\ Tag_is_free(mem'[t])
            /\ AllocatedBlocks' = AllocatedBlocks
                  \ {[addr |-> t, size |-> Tag_size(mem[t]), allocated |-> TRUE]}]_vars

\* a page-granular block was deallocated while two other blocks stay held
C8_Witness ==
    /\ Returned
    /\ last.op = "deallocate"
    /\ PageGranular(last.size)
    /\ Cardinality(live) = 2
    /\ Cardinality(AllocatedBlocks) = 2

(* ------------------------------- C9 ------------------------------------ *)
ExactFits(req) == {b \in FreeBlocks : b.size = req \/ b.size = req + TagWidth}
Lowest(bs) == CHOOSE b \in bs : \A c \in bs : b.addr <= c.addr

\* C9: a small request that meets a free block of the rounded size, or of
\* one tag width more, gets the lowest such block in place: allocated, size
\* unchanged, no block more and no new zero-size block.
C9_ExactFitTakenInPlace ==
    [][(last'.op = "allocate" /\ calls' = calls + 1 /\ buf # NULL
        /\ ~PageGranular(last'.size)
        /\ ExactFits(tag_align(last'.size)) # {}) =>
        LET b == Lowest(ExactFits(tag_align(last'.size)))
        IN  /\ last'.ptr = b.addr + TagWidth
            /\ mem'[b.addr] = b.size + 1
            /\ Len(Blocks') <= Len(Blocks)
            /\ {x.addr : x \in {y \in BlockSet' : y.size = 0}}
                  \subseteq {x.addr : x \in {y \in BlockSet : y.size = 0}}]_vars

Tiles(s, from, to) ==
    /\ Len(s) >= 1
    /\ s[1].addr = from
    /\ \A i \in 1 .. Len(s) - 1 : s[i + 1].addr = s[i].addr + TagWidth + s[i].size
    /\ s[Len(s)].addr + TagWidth + s[Len(s)].size = to

\* C11: in every state the calls reach, following next() from the tag at buf
\* visits blocks whose tag width + size add up to byte_len exactly: the walk
\* lands on the arena's end, every size is a multiple of the tag width, and
\* the blocks tile the arena.
C11_ChainTilesArena ==
    buf # NULL =>
      \A s \in {Blocks} :
        /\ Tiles(s, buf, buf + byte_len)
        /\ \A i \in 1 .. Len(s) : s[i].size % TagWidth = 0

\* a chain of five blocks or more, a zero-size block among them, after a
\* deallocate
C11_Witness ==
    /\ Returned
    /\ last.op = "deallocate"
    /\ Len(Blocks) >= 5
    /\ \E b \in BlockSet : b.size = 0
    /\ \E b \in AllocatedBlocks : b.size >= PAGE_SIZE

(* ------------------------------- C12 ----------------------------------- *)
\* C12: after every allocate or deallocate call returns, no two blocks that
\* are adjacent in the arena are both free.
C12_NoAdjacentFreeBlocks ==
    (Returned /\ last.op \in {"allocate", "deallocate"}) =>
      \A s \in {Blocks} :
        \A i \in 1 .. Len(s) - 1 : s[i].allocated \/ s[i + 1].allocated

(* ------------------------------- C13 ----------------------------------- *)
\* the whole pages that the largest free block on the chain holds
WholePages(size) == size \div PAGE_SIZE
LargestOf(ns) == IF ns = {} THEN 0 ELSE CHOOSE n \in ns : \A k \in ns : k <= n
LargestFreePages == LargestOf({WholePages(b.size) : b \in FreeBlocks})

\* C13: after every allocate or deallocate call returns, largest_space is
\* the size in whole pages of the largest free block in the arena, 0 when
\* there is none.
C13_LargestSpaceIsLargestFreeBlock ==
    (Returned /\ last.op \in {"allocate", "deallocate"}) =>
      largest_space = LargestFreePages

(* ------------------------------- C14 ----------------------------------- *)
\* the panics of the overflow-checked build on the cached span's arithmetic
SpanOverflows ==
    {"overflow: pg_size - 1", "overflow: pages - largest_space",
     "overflow: largest_space + 1"}

\* C14: in every state after a call, 0 <= largest_space <= pages - 1, and
\* no call stops on pg_size(size) - 1, pages - largest_space or
\* largest_space + 1 leaving the unsigned range.
C14_LargestSpaceInRange ==
    buf # NULL =>
      /\ 0 <= largest_space
      /\ largest_space <= pages - 1
      /\ panicked \notin SpanOverflows

(* ------------------------------- C15 ----------------------------------- *)
Qualifying(req) == {b \in FreeBlocks : b.size >= req}
Highest(bs) == CHOOSE b \in bs : \A c \in bs : c.addr <= b.addr

\* what C15 says of a small request of rounded size req that meets no exact
\* fit, with b the highest free block of size >= req
LastFitSplit(req, b) ==
    /\ last'.ptr = b.addr + TagWidth
    /\ mem'[b.addr] = req + 1
    /\ allocate_small(mem, req).mem[b.addr + TagWidth + req] = b.size - TagWidth - req
    /\ Tag_is_free(mem'[b.addr + TagWidth + req])
    /\ Tag_size(mem'[b.addr + TagWidth + req]) >= b.size - TagWidth - req

\* C15: a small request with no exact-fit block takes the highest-address
\* free block of size >= the rounded request: allocate returns its payload
\* start, sets its size to the rounded request, and writes a free tag of
\* size old_size - tag width - request at its new next().
C15_LastFitSplit ==
    [][(last'.op = "allocate" /\ calls' = calls + 1 /\ buf # NULL
        /\ ~PageGranular(last'.size)
        /\ ExactFits(tag_align(last'.size)) = {}
        /\ Qualifying(tag_align(last'.size)) # {}) =>
        LastFitSplit(tag_align(last'.size), Highest(Qualifying(tag_align(last'.size))))]_vars

(* ------------------------------- C16 ----------------------------------- *)
\* free block b has room for k pages on page boundaries behind a tag
AdmitsCarve(b, k) ==
    page_align_up(b.addr + TagWidth) + page_num_to_addr(k)
      <= b.addr + TagWidth + b.size

\* some block on the chain can serve a request of this size
Satisfiable(size) ==
    IF PageGranular(size)
    THEN \E b \in FreeBlocks : AdmitsCarve(b, pg_size(tag_align(size)))
    ELSE Qualifying(tag_align(size)) # {}

\* C16: allocate returns null only when no block qualifies: a request that
\* some free block can serve (by size for a small one, by a page-aligned
\* carve for pages) returns a pointer.
C16_NullOnlyWhenNothingFits ==
    [][(last'.op = "allocate" /\ calls' = calls + 1 /\ buf # NULL
        /\ Satisfiable(last'.size)) => last'.ptr # NULL]_vars

(* ------------------------------- C17 ----------------------------------- *)
\* the request reaches allocate_pages: the fast reject lets it through
ReachesWalk(size) ==
    ~(pg_size(tag_align(size)) > wrapping_add(largest_space, 1))

Feasible(k) == {b \in FreeBlocks : AdmitsCarve(b, k)}

\* the tag of a carve of k pages that ends at the highest page boundary not
\* above the next tag of block b
CarveTag(b, k) ==
    page_align_down(b.addr + TagWidth + b.size) - page_num_to_addr(k) - TagWidth

\* what C17 says of a request of k pages, with b the highest feasible block
HighestCarve(k, b) ==
    /\ mem'[CarveTag(b, k)] = page_num_to_addr(k) + 1
    /\ last'.ptr \in {CarveTag(b, k) + TagWidth, NULL}
    /\ panicked' = "" => last'.ptr = CarveTag(b, k) + TagWidth
    /\ \A c \in Feasible(k) \ {b} :
          /\ allocate_pages(mem, k).mem[c.addr] = mem[c.addr]
          /\ Tag_is_free(mem'[c.addr])

\* C17: a request of k pages that reaches allocate_pages is carved from the
\* highest-address free block where the carve is feasible, the carve ending
\* at the highest page boundary not above that block's next tag; feasible
\* blocks below it are left as they are.
C17_PagesFromHighestFeasibleBlock ==
    [][(last'.op = "allocate" /\ calls' = calls + 1 /\ buf # NULL
        /\ PageGranular(last'.size) /\ ReachesWalk(last'.size)
        /\ Feasible(pg_size(tag_align(last'.size))) # {}) =>
        HighestCarve(pg_size(tag_align(last'.size)),
                     Highest(Feasible(pg_size(tag_align(last'.size)))))]_vars

(* ------------------------------- C18 ----------------------------------- *)
SplitOverflows == {"overflow: new_start_size", "overflow: new_end_size"}

\* what C18 says of the split of block b for a carve of k pages with tag lo
\* and end hi, r being what allocate_pages hands back
ExactSplit(b, k, lo, hi, r) ==
    /\ r.panic \notin SplitOverflows
    /\ panicked' \notin SplitOverflows
    /\ r.mem[lo] = page_num_to_addr(k) + 1
    /\ lo # b.addr => r.mem[b.addr] = lo - (b.addr + TagWidth)
    /\ hi # b.addr + TagWidth + b.size =>
          /\ b.addr + TagWidth + b.size - (hi + TagWidth) >= 0
          /\ r.mem[hi] = b.addr + TagWidth + b.size - (hi + TagWidth)
    /\ (IF lo # b.addr THEN TagWidth + r.mem[b.addr] ELSE 0)
         + TagWidth + page_num_to_addr(k)
         + (IF hi # b.addr + TagWidth + b.size THEN TagWidth + r.mem[hi] ELSE 0)
       = TagWidth + b.size

\* C18: a page-granular allocation that does not take a whole free block
\* writes exact sizes, computed without unsigned underflow: the low remainder
\* when the carve does not start at the block's tag, the high remainder when
\* it ends before the block's next tag, the pieces adding up to the block.
C18_SplitSizesExact ==
    [][(last'.op = "allocate" /\ calls' = calls + 1 /\ buf # NULL
        /\ PageGranular(last'.size) /\ ReachesWalk(last'.size)
        /\ Feasible(pg_size(tag_align(last'.size))) # {}) =>
        \A k \in {pg_size(tag_align(last'.size))} :
          \A b \in {Highest(Feasible(k))} :
            (CarveTag(b, k) # b.addr
               \/ CarveTag(b, k) + TagWidth + page_num_to_addr(k) # b.addr + TagWidth + b.size)
            => ExactSplit(b, k, CarveTag(b, k),
                          CarveTag(b, k) + TagWidth + page_num_to_addr(k),
                          allocate_pages(mem, k))]_vars

(* ------------------------------- C19 ----------------------------------- *)
\* the page counts asked of free block b: the small ones, and those around
\* the whole pages b holds
PageCounts(b) ==
    { k \in (1 .. MaxAskPages)
             \cup ((WholePages(b.size) - 1) .. (WholePages(b.size) + 1)) :
        1 <= k /\ k <= pages }

\* what C19 says of the placement part that get_page_aligned_part(k) reports
\* for free block b
PlacementInside(b, k, part) ==
    /\ part[1] >= b.addr
    /\ page_aligned(part[1] + TagWidth)
    /\ part[2] <= b.addr + TagWidth + b.size
    /\ part[2] - part[1] - TagWidth = page_num_to_addr(k)

\* C19: for every free block on the chain and every page count k asked, a
\* placement that get_page_aligned_part(k) reports starts at or above the
\* block's tag, has a page-aligned payload, ends at or below the block's
\* next tag and spans k pages; the query's assertions never fire.
C19_PlacementInsideBlock ==
    buf # NULL =>
      \A b \in FreeBlocks : \A k \in PageCounts(b) :
        \A r \in {get_page_aligned_part(mem, b.addr, k)} :
          /\ r.panic = ""
          /\ r.part # <<>> => PlacementInside(b, k, r.part)
          /\ r.part # <<>> <=> AdmitsCarve(b, k)

\* a free block whose payload is not page-aligned gets a placement that
\* starts above its tag and ends below its next tag
C19_Witness ==
    /\ Returned
    /\ \E b \in FreeBlocks : \E k \in PageCounts(b) :
         \E r \in {get_page_aligned_part(mem, b.addr, k)} :
           /\ r.part # <<>>
           /\ ~page_aligned(b.addr + TagWidth)
           /\ r.part[1] > b.addr
           /\ r.part[2] < b.addr + TagWidth + b.size
           /\ k >= 2

====
